---------------------------- MODULE Spec2Model ----------------------------
(***************************************************************************)
(* A model of the redismodule-rs binding layer:                            *)
(*   - the bounded score-range iterator over a sorted-set key              *)
(*     (src/src/zset.rs), together with the host cursor primitives it      *)
(*     composes;                                                           *)
(*   - the lifetime-managed string handle (src/src/redismodule.rs);        *)
(*   - the argument-extraction helpers (src/src/redismodule.rs).           *)
(***************************************************************************)
EXTENDS Integers, Sequences, FiniteSets, TLC

VARIABLES
    zset,      \* content of the sorted-set key: sequence of [m, s], ascending
    cursor,    \* host cursor state held in each key handle
    iters,     \* the ZSetScoreIterator values (slots), with their history
    heap,      \* native string allocations of the host
    handles,   \* the live RedisString values
    heapFault, \* a misuse of the host allocator that has happened, or "none"
    ret,       \* what the last operation returned, and the host calls it made
    args,      \* remaining tokens of the argument sequence
    argRes,    \* result of the last argument extraction
    argOps,    \* number of argument extractions made so far
    convIn,    \* the application datum handed to a conversion into RedisValue
    convOut    \* the RedisValue the conversion produced

vars == <<zset, cursor, iters, heap, handles, heapFault, ret,
          args, argRes, argOps, convIn, convOut>>

zsetVars == <<zset, cursor, iters, heap, handles, heapFault, ret>>
argVars  == <<args, argRes, argOps>>
convVars == <<convIn, convOut>>

---------------------------------------------------------------------------
(* Bounds of the model *)

MaxMembers == 3
MaxIters == 2
MaxStrs == 2

---------------------------------------------------------------------------
(* The keyspace the iterator is exercised on *)

MemberOrder == <<"a", "b", "c", "d">>
Members == {MemberOrder[j] : j \in 1..MaxMembers}
Rank(m) == CHOOSE j \in 1..Len(MemberOrder) : MemberOrder[j] = m
\* The bytes of a member's name: "a" is 97.
MemberBytes(m) == <<96 + Rank(m)>>
Scores == {1, 2, 3}

Keys == {"zk", "sk"}
KeyTypeOf(k) == IF k = "zk" THEN "ZSet" ELSE "String"
KeyCtx(k) == "ctx1"
Ctxs == {"ctx1", "ctx2"}

\* The host keeps a sorted set ordered by score, ties by member.
EntryLess(x, y) == x.s < y.s \/ (x.s = y.s /\ Rank(x.m) < Rank(y.m))
IsSortedZSet(z) == \A p, q \in 1..Len(z) : p < q => EntryLess(z[p], z[q])
SortedZSet(sc) ==
    LET n == Cardinality(DOMAIN sc)
    IN  CHOOSE z \in [1..n -> [m : DOMAIN sc, s : Scores]] :
            /\ \A p \in 1..n : z[p].s = sc[z[p].m]
            /\ IsSortedZSet(z)
MemberSets == {{MemberOrder[j] : j \in 1..n} : n \in 1..MaxMembers}
ZSets == {SortedZSet(sc) : sc \in UNION {[M -> Scores] : M \in MemberSets}}

---------------------------------------------------------------------------
(* Host cursor primitives (the RedisModule_Zset family), acting on the     *)
(* cursor state c of key k over the sorted-set content z.                  *)

NoCursor == [ztype |-> "none", current |-> 0, er |-> 1,
             min |-> 0, max |-> 0, minex |-> FALSE, maxex |-> FALSE]

SetMin(S) == CHOOSE x \in S : \A y \in S : x <= y
SetMax(S) == CHOOSE x \in S : \A y \in S : x >= y

ValueGteMin(s, c) == IF c.minex THEN s > c.min ELSE s >= c.min
ValueLteMax(s, c) == IF c.maxex THEN s < c.max ELSE s <= c.max
RangeIsEmpty(c) == c.min > c.max \/ (c.min = c.max /\ (c.minex \/ c.maxex))

FirstInRange(z, c) ==
    LET cand == {j \in 1..Len(z) : ValueGteMin(z[j].s, c)}
    IN  IF RangeIsEmpty(c) \/ cand = {} THEN 0
        ELSE IF ValueLteMax(z[SetMin(cand)].s, c) THEN SetMin(cand) ELSE 0

LastInRange(z, c) ==
    LET cand == {j \in 1..Len(z) : ValueLteMax(z[j].s, c)}
    IN  IF RangeIsEmpty(c) \/ cand = {} THEN 0
        ELSE IF ValueGteMin(z[SetMax(cand)].s, c) THEN SetMax(cand) ELSE 0

ZsetRangeStop(k, c) == IF KeyTypeOf(k) # "ZSet" THEN c ELSE NoCursor

ZsetInitScoreRange(k, z, c, min, max, minex, maxex, first) ==
    IF KeyTypeOf(k) # "ZSet" THEN [status |-> "Err", cur |-> c]
    ELSE LET r == [NoCursor EXCEPT !.ztype = "score", !.min = min, !.max = max,
                                   !.minex = minex, !.maxex = maxex]
             p == IF first THEN FirstInRange(z, r) ELSE LastInRange(z, r)
         IN  [status |-> "Ok",
              cur |-> [r EXCEPT !.current = p, !.er = IF p = 0 THEN 1 ELSE 0]]

ZsetFirstInScoreRange(k, z, c, min, max, minex, maxex) ==
    ZsetInitScoreRange(k, z, c, min, max, minex, maxex, TRUE)

ZsetLastInScoreRange(k, z, c, min, max, minex, maxex) ==
    ZsetInitScoreRange(k, z, c, min, max, minex, maxex, FALSE)

ZsetRangeEndReached(k, c) == IF KeyTypeOf(k) # "ZSet" THEN 1 ELSE c.er

ZsetRangeCurrentElement(k, z, c) ==
    IF KeyTypeOf(k) # "ZSet" \/ c.current = 0 THEN "NULL" ELSE z[c.current].m

ZsetRangeNext(k, z, c) ==
    IF KeyTypeOf(k) # "ZSet" \/ c.ztype = "none" \/ c.current = 0 THEN c
    ELSE IF c.current = Len(z) THEN [c EXCEPT !.er = 1]
    ELSE IF ~ValueLteMax(z[c.current + 1].s, c) THEN [c EXCEPT !.er = 1]
    ELSE [c EXCEPT !.current = c.current + 1]

ZsetRangePrev(k, z, c) ==
    IF KeyTypeOf(k) # "ZSet" \/ c.ztype = "none" \/ c.current = 0 THEN c
    ELSE IF c.current = 1 THEN [c EXCEPT !.er = 1]
    ELSE IF ~ValueGteMin(z[c.current - 1].s, c) THEN [c EXCEPT !.er = 1]
    ELSE [c EXCEPT !.current = c.current - 1]

---------------------------------------------------------------------------
(* Host string allocator: RedisModule_CreateString / RedisModule_FreeString *)

Ptrs == 1..MaxStrs
NoAlloc == [live |-> FALSE, ctx |-> "none", text |-> <<>>]
FreePtrs(hp) == {p \in Ptrs : ~hp[p].live}

\* A fresh native string holding the given bytes, registered under context
\* ctx.
HostNewString(hp, ctx, bytes) ==
    LET p == SetMin(FreePtrs(hp))
    IN  [ptr |-> p,
         heap |-> [hp EXCEPT ![p] = [live |-> TRUE, ctx |-> ctx, text |-> bytes]]]

\* RedisModule_CreateString(ctx, ptr, len): a native string holding the
\* first len bytes of the buffer.
HostCreateString(hp, ctx, buf, len) == HostNewString(hp, ctx, SubSeq(buf, 1, len))

\* Releasing ptr under ctx; a release of a dead pointer, or under a context
\* other than the one it is registered with, is recorded as a fault.
HostFreeString(hp, fault, ctx, ptr) ==
    IF ~hp[ptr].live THEN [heap |-> hp, fault |-> "double_free"]
    ELSE [heap |-> [hp EXCEPT ![ptr] = NoAlloc],
          fault |-> IF hp[ptr].ctx # ctx THEN "wrong_ctx" ELSE fault]

---------------------------------------------------------------------------
(* src/src/zset.rs *)

Kinds == {"Included", "Excluded"}
NoBound == [kind |-> "Unbounded", v |-> 0]
RangeBounds == [kind : Kinds, v : Scores] \cup {NoBound}

UnboundedMsg == "unbounded range is unsupported"
CreateFailedMsg == "failed to create ZSet iterator"

\* A variant of extract_bound that takes an unbounded side for a closed 0.
extract_bound_unbounded_as_zero(b) ==
    CASE b.kind = "Excluded" -> [ok |-> TRUE, value |-> b.v, ex |-> TRUE, err |-> ""]
      [] OTHER -> [ok |-> TRUE, value |-> b.v, ex |-> FALSE, err |-> ""]

\* extract_bound: the bound's value and whether it is excluded
extract_bound(b) ==
    CASE b.kind = "Included" -> [ok |-> TRUE, value |-> b.v, ex |-> FALSE, err |-> ""]
      [] b.kind = "Excluded" -> [ok |-> TRUE, value |-> b.v, ex |-> TRUE, err |-> ""]
      [] OTHER -> [ok |-> FALSE, value |-> 0, ex |-> FALSE, err |-> UnboundedMsg]

\* A variant of init_call that hands the two exclusion flags over swapped.
init_call_swapped_flags(k, z, c, min, minex, max, maxex, last) ==
    IF last
    THEN [prim |-> "LastInScoreRange",
          r |-> ZsetLastInScoreRange(k, z, c, min, max, maxex, minex)]
    ELSE [prim |-> "FirstInScoreRange",
          r |-> ZsetFirstInScoreRange(k, z, c, min, max, maxex, minex)]

\* The unsafe block of new: the host primitive picked by `last`, and its call.
init_call(k, z, c, min, minex, max, maxex, last) ==
    IF last
    THEN [prim |-> "LastInScoreRange",
          r |-> ZsetLastInScoreRange(k, z, c, min, max, minex, maxex)]
    ELSE [prim |-> "FirstInScoreRange",
          r |-> ZsetFirstInScoreRange(k, z, c, min, max, minex, maxex)]

\* A variant of new that builds the iterator value first, so that a failed
\* construction drops it and the drop stops the key's cursor.
ZSetScoreIterator_new_drop_on_error(k, z, c, lo, hi, last) ==
    IF KeyTypeOf(k) # "ZSet"
    THEN [res |-> "WrongType", cur |-> ZsetRangeStop(k, c), calls |-> <<"Stop">>]
    ELSE IF ~extract_bound(lo).ok
    THEN [res |-> extract_bound(lo).err, cur |-> ZsetRangeStop(k, c),
          calls |-> <<"Stop">>]
    ELSE IF ~extract_bound(hi).ok
    THEN [res |-> extract_bound(hi).err, cur |-> ZsetRangeStop(k, c),
          calls |-> <<"Stop">>]
    ELSE LET i == init_call(k, z, c, extract_bound(lo).value, extract_bound(lo).ex,
                            extract_bound(hi).value, extract_bound(hi).ex, last)
         IN  [res |-> IF i.r.status = "Ok" THEN "Ok" ELSE CreateFailedMsg,
              cur |-> i.r.cur, calls |-> <<i.prim>>]

\* A variant of new without the key-type check.
ZSetScoreIterator_new_no_type_check(k, z, c, lo, hi, last) ==
    IF ~extract_bound(lo).ok
    THEN [res |-> extract_bound(lo).err, cur |-> c, calls |-> <<>>]
    ELSE IF ~extract_bound(hi).ok
    THEN [res |-> extract_bound(hi).err, cur |-> c, calls |-> <<>>]
    ELSE LET i == init_call(k, z, c, extract_bound(lo).value, extract_bound(lo).ex,
                            extract_bound(hi).value, extract_bound(hi).ex, last)
         IN  [res |-> IF i.r.status = "Ok" THEN "Ok" ELSE CreateFailedMsg,
              cur |-> i.r.cur, calls |-> <<i.prim>>]

\* ZSetScoreIterator::new: its result, the key's cursor after it, and the
\* host primitives it invoked.
ZSetScoreIterator_new(k, z, c, lo, hi, last) ==
    IF KeyTypeOf(k) # "ZSet"
    THEN [res |-> "WrongType", cur |-> c, calls |-> <<>>]
    ELSE IF ~extract_bound(lo).ok
    THEN [res |-> extract_bound(lo).err, cur |-> c, calls |-> <<>>]
    ELSE IF ~extract_bound(hi).ok
    THEN [res |-> extract_bound(hi).err, cur |-> c, calls |-> <<>>]
    ELSE LET i == init_call(k, z, c, extract_bound(lo).value, extract_bound(lo).ex,
                            extract_bound(hi).value, extract_bound(hi).ex, last)
         IN  [res |-> IF i.r.status = "Ok" THEN "Ok" ELSE CreateFailedMsg,
              cur |-> i.r.cur, calls |-> <<i.prim>>]

\* A variant of next that advances with the backward primitive.
next_step_backward(k, z, c) ==
    IF ZsetRangeEndReached(k, c) = 1
    THEN [some |-> FALSE, item |-> "None", hctx |-> KeyCtx(k), cur |-> c,
          calls |-> <<"EndReached">>]
    ELSE [some |-> TRUE, item |-> ZsetRangeCurrentElement(k, z, c),
          hctx |-> KeyCtx(k), cur |-> ZsetRangePrev(k, z, c),
          calls |-> <<"EndReached", "CurrentElement", "Prev">>]

\* A variant of next that advances the cursor before it reads the element.
next_step_advance_first(k, z, c) ==
    IF ZsetRangeEndReached(k, c) = 1
    THEN [some |-> FALSE, item |-> "None", hctx |-> KeyCtx(k), cur |-> c,
          calls |-> <<"EndReached">>]
    ELSE [some |-> TRUE,
          item |-> ZsetRangeCurrentElement(k, z, ZsetRangeNext(k, z, c)),
          hctx |-> KeyCtx(k), cur |-> ZsetRangeNext(k, z, c),
          calls |-> <<"EndReached", "Next", "CurrentElement">>]

\* Iterator::next: whether an element is yielded, the element, the context
\* it is wrapped under, the cursor afterwards, the host primitives invoked.
next_step(k, z, c) ==
    IF ZsetRangeEndReached(k, c) = 1
    THEN [some |-> FALSE, item |-> "None", hctx |-> KeyCtx(k), cur |-> c,
          calls |-> <<"EndReached">>]
    ELSE [some |-> TRUE, item |-> ZsetRangeCurrentElement(k, z, c),
          hctx |-> KeyCtx(k), cur |-> ZsetRangeNext(k, z, c),
          calls |-> <<"EndReached", "CurrentElement", "Next">>]

\* A variant of next_back that retrieves the current element before it asks
\* whether the end is reached.
next_back_step_read_first(k, z, c) ==
    IF ZsetRangeEndReached(k, c) = 1
    THEN [some |-> FALSE, item |-> "None", hctx |-> KeyCtx(k), cur |-> c,
          calls |-> <<"CurrentElement", "EndReached">>]
    ELSE [some |-> TRUE, item |-> ZsetRangeCurrentElement(k, z, c),
          hctx |-> KeyCtx(k), cur |-> ZsetRangePrev(k, z, c),
          calls |-> <<"CurrentElement", "EndReached", "Prev">>]

\* A variant of next_back that advances with the forward primitive.
next_back_step_forward(k, z, c) ==
    IF ZsetRangeEndReached(k, c) = 1
    THEN [some |-> FALSE, item |-> "None", hctx |-> KeyCtx(k), cur |-> c,
          calls |-> <<"EndReached">>]
    ELSE [some |-> TRUE, item |-> ZsetRangeCurrentElement(k, z, c),
          hctx |-> KeyCtx(k), cur |-> ZsetRangeNext(k, z, c),
          calls |-> <<"EndReached", "CurrentElement", "Next">>]

\* DoubleEndedIterator::next_back
next_back_step(k, z, c) ==
    IF ZsetRangeEndReached(k, c) = 1
    THEN [some |-> FALSE, item |-> "None", hctx |-> KeyCtx(k), cur |-> c,
          calls |-> <<"EndReached">>]
    ELSE [some |-> TRUE, item |-> ZsetRangeCurrentElement(k, z, c),
          hctx |-> KeyCtx(k), cur |-> ZsetRangePrev(k, z, c),
          calls |-> <<"EndReached", "CurrentElement", "Prev">>]

\* Variants of drop: one that leaves the cursor open, one that stops twice.
drop_step_no_stop(k, c) == [cur |-> c, calls |-> <<>>]
drop_step_stop_twice(k, c) ==
    [cur |-> ZsetRangeStop(k, ZsetRangeStop(k, c)), calls |-> <<"Stop", "Stop">>]

\* Drop for ZSetScoreIterator
drop_step(k, c) == [cur |-> ZsetRangeStop(k, c), calls |-> <<"Stop">>]

\* RedisString::from_redis_module_string: the owning handle of a pointer
\* handed back by the host.
from_redis_module_string(ctx, ptr) == [ctx |-> ctx, inner |-> ptr]

---------------------------------------------------------------------------
(* src/src/redismodule.rs: RedisString *)

\* Text is a sequence of bytes (the UTF-8 encoding of a &str).
HasNul(s) == \E j \in 1..Len(s) : s[j] = 0

\* CString::new(s): fails on an interior NUL byte, else the bytes of s
\* followed by the terminating NUL.
CString_new(s) ==
    IF HasNul(s) THEN [ok |-> FALSE, bytes |-> <<>>]
    ELSE [ok |-> TRUE, bytes |-> s \o <<0>>]

\* The bytes of a C buffer up to its first NUL.
RECURSIVE UpToNul(_)
UpToNul(s) ==
    IF s = <<>> \/ Head(s) = 0 THEN <<>> ELSE <<Head(s)>> \o UpToNul(Tail(s))

NoHandle == [ctx |-> "none", inner |-> 0]

\* A variant of create that hands the text to the host as a C string without
\* checking it for a NUL byte.
RedisString_create_unchecked(hp, ctx, s) ==
    LET a == HostCreateString(hp, ctx, UpToNul(s), Len(UpToNul(s)))
    IN  [panic |-> FALSE, heap |-> a.heap,
         handle |-> [ctx |-> ctx, inner |-> a.ptr], calls |-> <<"CreateString">>]

\* RedisString::create: unwrap panics when CString::new fails, before the
\* host is called.
RedisString_create(hp, ctx, s) ==
    IF ~CString_new(s).ok
    THEN [panic |-> TRUE, heap |-> hp, handle |-> NoHandle, calls |-> <<>>]
    ELSE LET a == HostCreateString(hp, ctx, CString_new(s).bytes, Len(s))
         IN  [panic |-> FALSE, heap |-> a.heap,
              handle |-> [ctx |-> ctx, inner |-> a.ptr],
              calls |-> <<"CreateString">>]

\* A variant of drop that releases the string under no context.
RedisString_drop_null_ctx(hp, fault, h) == HostFreeString(hp, fault, "null", h.inner)

\* Drop for RedisString
RedisString_drop(hp, fault, h) == HostFreeString(hp, fault, h.ctx, h.inner)

---------------------------------------------------------------------------
(* src/src/redismodule.rs: argument extraction.  Text is a sequence of     *)
(* one-character strings.                                                   *)

Digits == <<"0", "1", "2", "3", "4", "5", "6", "7", "8", "9">>
IsDigit(ch) == \E j \in 1..Len(Digits) : Digits[j] = ch
DigitVal(ch) == (CHOOSE j \in 1..Len(Digits) : Digits[j] = ch) - 1

\* Natural numbers of any size, as their decimal digits without leading zeros
\* (zero is the empty sequence).
RECURSIVE StripZeros(_)
StripZeros(ds) ==
    IF ds # <<>> /\ Head(ds) = "0" THEN StripZeros(Tail(ds)) ELSE ds
RECURSIVE LexLeq(_, _)
LexLeq(a, b) ==
    IF a = <<>> THEN TRUE
    ELSE IF DigitVal(Head(a)) # DigitVal(Head(b))
    THEN DigitVal(Head(a)) < DigitVal(Head(b))
    ELSE LexLeq(Tail(a), Tail(b))
MagLeq(a, b) == Len(a) < Len(b) \/ (Len(a) = Len(b) /\ LexLeq(a, b))

\* i64::MAX and the magnitude of i64::MIN
I64MaxMag == <<"9", "2", "2", "3", "3", "7", "2", "0", "3", "6", "8", "5",
    "4", "7", "7", "5", "8", "0", "7">>
I64MinMag == <<"9", "2", "2", "3", "3", "7", "2", "0", "3", "6", "8", "5",
    "4", "7", "7", "5", "8", "0", "8">>

\* <i64 as FromStr>::from_str: an optional sign, then digits accumulated one
\* at a time with checked multiplication and addition.
RECURSIVE AccumulateDigits(_, _, _)
AccumulateDigits(acc, rest, neg) ==
    IF rest = <<>> THEN [ok |-> TRUE, mag |-> acc]
    ELSE IF ~IsDigit(Head(rest)) THEN [ok |-> FALSE, mag |-> <<>>]
    ELSE LET nxt == StripZeros(Append(acc, Head(rest)))
         IN  IF MagLeq(nxt, IF neg THEN I64MinMag ELSE I64MaxMag)
             THEN AccumulateDigits(nxt, Tail(rest), neg)
             ELSE [ok |-> FALSE, mag |-> <<>>]

I64FromStr(src) ==
    IF src = <<>> THEN [ok |-> FALSE, neg |-> FALSE, mag |-> <<>>]
    ELSE IF Head(src) \in {"+", "-"} /\ Tail(src) = <<>>
    THEN [ok |-> FALSE, neg |-> FALSE, mag |-> <<>>]
    ELSE LET neg == Head(src) = "-"
             digits == IF Head(src) \in {"+", "-"} THEN Tail(src) ELSE src
             a == AccumulateDigits(<<>>, digits, neg)
         IN  IF a.ok THEN [ok |-> TRUE, neg |-> neg /\ a.mag # <<>>, mag |-> a.mag]
             ELSE [ok |-> FALSE, neg |-> FALSE, mag |-> <<>>]

ParsePrefix == <<"C", "o", "u", "l", "d", "n", "'", "t", " ", "p", "a", "r",
    "s", "e", " ", "a", "s", " ", "i", "n", "t", "e", "g", "e",
    "r", ":", " ">>

NoValue == [neg |-> FALSE, mag |-> <<>>]

RECURSIVE TrimSpaces(_)
TrimSpaces(t) ==
    IF t # <<>> /\ Head(t) = " " THEN TrimSpaces(Tail(t))
    ELSE IF t # <<>> /\ t[Len(t)] = " " THEN TrimSpaces(SubSeq(t, 1, Len(t) - 1))
    ELSE t

\* A variant of parse_integer that trims the token before parsing it.
parse_integer_trimmed(arg) ==
    LET r == I64FromStr(TrimSpaces(arg))
    IN  IF r.ok
        THEN [kind |-> "Ok", value |-> [neg |-> r.neg, mag |-> r.mag], msg |-> <<>>]
        ELSE [kind |-> "String", value |-> NoValue, msg |-> ParsePrefix \o arg]

\* parse_integer
parse_integer(arg) ==
    LET r == I64FromStr(arg)
    IN  IF r.ok
        THEN [kind |-> "Ok", value |-> [neg |-> r.neg, mag |-> r.mag], msg |-> <<>>]
        ELSE [kind |-> "String", value |-> NoValue, msg |-> ParsePrefix \o arg]

WrongArity == [kind |-> "WrongArity", value |-> NoValue, msg |-> <<>>]

\* NextArg::next_string: the result and the sequence left
next_string(a) ==
    IF a = <<>> THEN [res |-> WrongArity, rest |-> a]
    ELSE [res |-> [kind |-> "OkString", value |-> NoValue, msg |-> Head(a)],
          rest |-> Tail(a)]

\* A variant of next_i64 that parses the empty text when no token is left.
next_i64_parse_default(a) ==
    IF a = <<>> THEN [res |-> parse_integer(<<>>), rest |-> a]
    ELSE [res |-> parse_integer(Head(a)), rest |-> Tail(a)]

\* NextArg::next_i64: the result and the sequence left
next_i64(a) ==
    IF a = <<>> THEN [res |-> WrongArity, rest |-> a]
    ELSE [res |-> parse_integer(Head(a)), rest |-> Tail(a)]

\* The tokens the argument sequences are drawn from.
Tokens ==
    { <<>>, <<"0">>, <<"7">>, <<"4", "2">>, <<"-", "7">>, <<"+", "7">>,
      <<"-">>, <<"+">>, <<"0", "7">>, <<"-", "0">>, <<" ", "7">>,
      <<"7", " ">>, <<"7", "a">>, <<"a">>, <<"+", "-", "7">>,
      <<"1", ".", "5">>,
      I64MaxMag, <<"-">> \o I64MinMag, I64MinMag,
      <<"-", "9", "2", "2", "3", "3", "7", "2", "0", "3", "6", "8", "5",
        "4", "7", "7", "5", "8", "0", "9">>,
      <<"0", "0">> \o I64MaxMag }

MaxArgs == 2

ArgSeqs == UNION {[1..n -> Tokens] : n \in 0..MaxArgs}

NoArgRes == [op |-> "none", empty |-> FALSE, tok |-> <<>>, res |-> WrongArity]

NextString ==
    /\ args' = next_string(args).rest
    /\ argRes' = [op |-> "next_string", empty |-> (args = <<>>),
                  tok |-> IF args = <<>> THEN <<>> ELSE Head(args),
                  res |-> next_string(args).res]
    /\ argOps' = argOps + Len(args) - Len(args')
    /\ UNCHANGED <<zsetVars, convVars>>

NextI64 ==
    /\ args' = next_i64(args).rest
    /\ argRes' = [op |-> "next_i64", empty |-> (args = <<>>),
                  tok |-> IF args = <<>> THEN <<>> ELSE Head(args),
                  res |-> next_i64(args).res]
    /\ argOps' = argOps + Len(args) - Len(args')
    /\ UNCHANGED <<zsetVars, convVars>>

---------------------------------------------------------------------------
(* src/src/redismodule.rs: RedisValue and the conversions into it.  An i64  *)
(* is its eight two's-complement bytes, a usize the bytes of the target's   *)
(* machine word, most significant byte first.                               *)

I64Bytes == 8
ZeroI64 == [j \in 1..I64Bytes |-> 0]

\* The variants of RedisValue that the conversions produce.
RedisValue_SimpleString(s) ==
    [variant |-> "SimpleString", text |-> s, int |-> ZeroI64, elems |-> <<>>]
RedisValue_BulkString(s) ==
    [variant |-> "BulkString", text |-> s, int |-> ZeroI64, elems |-> <<>>]
RedisValue_Integer(i) ==
    [variant |-> "Integer", text |-> "", int |-> i, elems |-> <<>>]
RedisValue_Array(es) ==
    [variant |-> "Array", text |-> "", int |-> ZeroI64, elems |-> es]

\* impl From<i64> for RedisValue
From_i64(i) == RedisValue_Integer(i)

\* impl From<String> for RedisValue
From_String(s) == RedisValue_SimpleString(s)

\* A variant of From<Vec<String>> that converts each element through
\* From<String>.
From_Vec_String_via_into(strings) ==
    RedisValue_Array([j \in 1..Len(strings) |-> From_String(strings[j])])

\* impl From<Vec<String>> for RedisValue
From_Vec_String(strings) ==
    RedisValue_Array([j \in 1..Len(strings) |-> RedisValue_BulkString(strings[j])])

\* `i as i64` on a usize: the same bits on a 64-bit target, zero-extended on
\* a narrower one.
usize_as_i64(i) ==
    [j \in 1..I64Bytes |->
        IF j <= I64Bytes - Len(i) THEN 0 ELSE i[j - (I64Bytes - Len(i))]]

\* impl From<usize> for RedisValue
From_usize(i) == From_i64(usize_as_i64(i))

\* The number a byte sequence denotes, as a sign and a magnitude (bytes
\* without leading zeros).
RECURSIVE StripZeroBytes(_)
StripZeroBytes(b) ==
    IF b # <<>> /\ Head(b) = 0 THEN StripZeroBytes(Tail(b)) ELSE b
RECURSIVE AddOne(_)
AddOne(b) ==
    IF b = <<>> THEN <<>>
    ELSE IF b[Len(b)] = 255 THEN AddOne(SubSeq(b, 1, Len(b) - 1)) \o <<0>>
    ELSE SubSeq(b, 1, Len(b) - 1) \o <<b[Len(b)] + 1>>
UnsignedValue(b) == [neg |-> FALSE, mag |-> StripZeroBytes(b)]
SignedValue(b) ==
    IF b[1] >= 128
    THEN [neg |-> TRUE,
          mag |-> IF \A j \in 1..Len(b) : b[j] = (IF j = 1 THEN 128 ELSE 0)
                  THEN b
                  ELSE StripZeroBytes(AddOne([j \in 1..Len(b) |-> 255 - b[j]]))]
    ELSE [neg |-> FALSE, mag |-> StripZeroBytes(b)]

\* The data the conversions are exercised on.
MaxVec == 3
Strings == {"", "a", "OK", "b c"}
StringVecs == UNION {[1..n -> Strings] : n \in 0..MaxVec}
PointerBytes == {4, 8}
Words ==
    {[j \in 1..w |-> IF j = 1 THEN hi ELSE IF j = w THEN lo ELSE mid] :
        w \in PointerBytes, hi \in {0, 1, 127, 128, 255}, mid \in {0, 255},
        lo \in {0, 1, 255}}

NoConvIn == [kind |-> "none", strings |-> <<>>, word |-> <<>>]
NoConvOut == [variant |-> "none", text |-> "", int |-> ZeroI64, elems |-> <<>>]
ConvInputs ==
    {[kind |-> "strings", strings |-> v, word |-> <<>>] : v \in StringVecs}
    \cup {[kind |-> "usize", strings |-> <<>>, word |-> w] : w \in Words}

ConvertStrings ==
    /\ convIn.kind = "strings" /\ convOut = NoConvOut
    /\ convOut' = From_Vec_String(convIn.strings)
    /\ UNCHANGED <<convIn, zsetVars, argVars>>

ConvertUsize ==
    /\ convIn.kind = "usize" /\ convOut = NoConvOut
    /\ convOut' = From_usize(convIn.word)
    /\ UNCHANGED <<convIn, zsetVars, argVars>>

---------------------------------------------------------------------------
(* The iterator values and their recorded history *)

Slots == 1..MaxIters

NoIter == [st |-> "none", key |-> "zk", last |-> FALSE, lo |-> NoBound,
           hi |-> NoBound, out |-> <<>>, done |-> FALSE, mode |-> "fresh",
           disturbed |-> FALSE, stops |-> 0, after |-> -1]

NoRet == [op |-> "init", it |-> 0, key |-> "zk", res |-> "", unb |-> FALSE,
          calls |-> <<>>, stops |-> 0, steps |-> -1, again |-> FALSE,
          text |-> <<>>]

CountOf(calls, prim) == Cardinality({j \in 1..Len(calls) : calls[j] = prim})

\* Primitives that reposition or close a key's cursor.
Repositions(calls) ==
    \E j \in 1..Len(calls) : calls[j] \notin {"EndReached", "CurrentElement"}

\* The history of an iterator whose cursor was touched by another iterator
\* of the same key is no longer followed.
Disturb(r) == [r EXCEPT !.disturbed = TRUE, !.last = FALSE, !.lo = NoBound,
                        !.hi = NoBound, !.out = <<>>, !.done = FALSE,
                        !.mode = "fresh", !.after = -1]

Others(i, k, calls) ==
    [j \in Slots |->
        IF j # i /\ iters[j].st = "active" /\ iters[j].key = k /\ Repositions(calls)
        THEN Disturb(iters[j]) ELSE iters[j]]

ModeAfter(mode, dir) ==
    IF mode = "fresh" \/ mode = dir THEN dir ELSE "mixed"

\* Nor is the history of an iterator stepped through both accessors.
Unfollowed(r) == r.disturbed \/ r.mode = "mixed"
Mixed(r) == [r EXCEPT !.mode = "mixed", !.last = FALSE, !.lo = NoBound,
                      !.hi = NoBound, !.out = <<>>, !.done = FALSE,
                      !.after = -1]

Stepped(r, s, dir) ==
    IF Unfollowed(r)
    THEN [r EXCEPT !.stops = r.stops + CountOf(s.calls, "Stop")]
    ELSE IF ModeAfter(r.mode, dir) = "mixed"
    THEN [Mixed(r) EXCEPT !.stops = r.stops + CountOf(s.calls, "Stop")]
    ELSE [r EXCEPT !.out = IF s.some THEN Append(r.out, s.item) ELSE r.out,
                   !.done = r.done \/ ~s.some,
                   !.mode = ModeAfter(r.mode, dir),
                   !.stops = r.stops + CountOf(s.calls, "Stop")]

FreeSlots == {i \in Slots : iters[i].st = "none"}
PickSlot == SetMin(FreeSlots)

---------------------------------------------------------------------------
(* Actions: the sorted-set iterator and the string handles *)

ZSetNew(k, lo, hi, last) ==
    /\ FreeSlots # {}
    /\ LET i == PickSlot
           r == ZSetScoreIterator_new(k, zset, cursor[k], lo, hi, last)
           \* elements the iterator dropped just before on this key had
           \* yielded, or -1
           prev == IF ret.op = "drop" /\ ret.key = k THEN ret.steps ELSE -1
       IN  /\ cursor' = [cursor EXCEPT ![k] = r.cur]
           /\ iters' = IF r.res = "Ok"
                       THEN [Others(i, k, r.calls) EXCEPT
                               ![i] = [NoIter EXCEPT !.st = "active", !.key = k,
                                          !.last = last, !.lo = lo, !.hi = hi,
                                          !.after = prev]]
                       ELSE Others(i, k, r.calls)
           /\ ret' = [op |-> "new", it |-> IF r.res = "Ok" THEN i ELSE 0,
                      key |-> k, res |-> r.res,
                      unb |-> (lo = NoBound \/ hi = NoBound), calls |-> r.calls,
                      stops |-> 0, steps |-> prev,
                      again |-> (ret.op = "new" /\ ret.key = k /\ ret.res # "Ok"),
                      text |-> <<>>]
    /\ UNCHANGED <<zset, heap, handles, heapFault, argVars, convVars>>

\* The element a step yields is a native string the host creates under the
\* key's context; the step wraps it in a RedisString.
Yield(i, s, dir, op) ==
    LET k == iters[i].key
    IN  /\ s.some => FreePtrs(heap) # {}
        /\ cursor' = [cursor EXCEPT ![k] = s.cur]
        /\ iters' = [Others(i, k, s.calls) EXCEPT ![i] = Stepped(iters[i], s, dir)]
        /\ IF s.some
           THEN LET a == HostNewString(heap, KeyCtx(k), MemberBytes(s.item))
                IN  /\ heap' = a.heap
                    /\ handles' = handles \cup {from_redis_module_string(s.hctx, a.ptr)}
           ELSE UNCHANGED <<heap, handles>>
        /\ ret' = [op |-> op, it |-> i, key |-> k, res |-> s.item, unb |-> FALSE,
                   calls |-> s.calls, stops |-> 0, steps |-> -1, again |-> FALSE,
                   text |-> <<>>]
        /\ UNCHANGED <<zset, heapFault, argVars, convVars>>

ZSetNext(i) ==
    /\ iters[i].st = "active"
    /\ Yield(i, next_step(iters[i].key, zset, cursor[iters[i].key]), "fwd", "next")

ZSetNextBack(i) ==
    /\ iters[i].st = "active"
    /\ Yield(i, next_back_step(iters[i].key, zset, cursor[iters[i].key]), "back",
             "next_back")

ZSetDrop(i) ==
    /\ iters[i].st = "active"
    /\ LET k == iters[i].key
           d == drop_step(k, cursor[k])
       IN  /\ cursor' = [cursor EXCEPT ![k] = d.cur]
           /\ iters' = [Others(i, k, d.calls) EXCEPT ![i] = NoIter]
           /\ ret' = [op |-> "drop", it |-> i, key |-> k,
                      res |-> IF iters[i].done THEN "exhausted" ELSE "unfinished",
                      unb |-> FALSE, calls |-> d.calls,
                      stops |-> iters[i].stops + CountOf(d.calls, "Stop"),
                      steps |-> Len(iters[i].out), again |-> FALSE,
                      text |-> <<>>]
    /\ UNCHANGED <<zset, heap, handles, heapFault, argVars, convVars>>

StringCreate(ctx, s) ==
    /\ FreePtrs(heap) # {}
    /\ LET c == RedisString_create(heap, ctx, s)
       IN  /\ heap' = c.heap
           /\ handles' = IF c.panic THEN handles ELSE handles \cup {c.handle}
           /\ ret' = [op |-> "create", it |-> 0, key |-> "zk",
                      res |-> IF c.panic THEN "panic" ELSE "", unb |-> FALSE,
                      calls |-> c.calls, stops |-> 0, steps |-> -1,
                      again |-> FALSE, text |-> s]
    /\ UNCHANGED <<zset, cursor, iters, heapFault, argVars, convVars>>

StringDrop(h) ==
    /\ h \in handles
    /\ LET f == RedisString_drop(heap, heapFault, h)
       IN  /\ heap' = f.heap
           /\ heapFault' = f.fault
    /\ handles' = handles \ {h}
    /\ ret' = [op |-> "free", it |-> 0, key |-> "zk", res |-> "", unb |-> FALSE,
               calls |-> <<"FreeString">>, stops |-> 0, steps |-> -1,
               again |-> FALSE, text |-> <<>>]
    /\ UNCHANGED <<zset, cursor, iters, argVars, convVars>>

HandleSpace == [ctx : Ctxs, inner : Ptrs]

InitArgsIdle ==
    /\ args = <<>>
    /\ argRes = NoArgRes
    /\ argOps = 0

InitConvIdle ==
    /\ convIn = NoConvIn
    /\ convOut = NoConvOut

Init ==
    /\ zset \in ZSets
    /\ cursor = [k \in Keys |-> NoCursor]
    /\ iters = [i \in Slots |-> NoIter]
    /\ heap = [p \in Ptrs |-> NoAlloc]
    /\ handles = {}
    /\ heapFault = "none"
    /\ ret = NoRet
    /\ InitArgsIdle
    /\ InitConvIdle

\* No iterator is live on key k.
Unborrowed(k) == \A i \in Slots : ~(iters[i].st = "active" /\ iters[i].key = k)

\* One consumer: it constructs an iterator on a key only while no other is
\* live on it (the single-owner discipline), over any key and any interval,
\* in either direction, and it releases each element before it asks for the
\* next.
Next ==
    \/ \E k \in Keys, lo \in RangeBounds, hi \in RangeBounds, last \in BOOLEAN :
          (\A q \in Keys : Unborrowed(q)) /\ ZSetNew(k, lo, hi, last)
    \/ \E i \in Slots : handles = {} /\ ZSetNext(i)
    \/ \E i \in Slots : handles = {} /\ ZSetNextBack(i)
    \/ \E i \in Slots : ZSetDrop(i)
    \/ \E h \in HandleSpace : StringDrop(h)

Spec == Init /\ [][Next]_vars

\* Argument extraction over every sequence of at most MaxArgs tokens.
InitArgs ==
    /\ zset = <<[m |-> "a", s |-> 1]>>
    /\ cursor = [k \in Keys |-> NoCursor]
    /\ iters = [i \in Slots |-> NoIter]
    /\ heap = [p \in Ptrs |-> NoAlloc]
    /\ handles = {}
    /\ heapFault = "none"
    /\ ret = NoRet
    /\ args \in ArgSeqs
    /\ argRes = NoArgRes
    /\ argOps = 0
    /\ InitConvIdle

NextArgs == NextString \/ NextI64

SpecArgs == InitArgs /\ [][NextArgs]_vars

\* Conversions into RedisValue, of every vector of at most MaxVec strings and
\* of machine words of either pointer width.
InitConv ==
    /\ zset = <<[m |-> "a", s |-> 1]>>
    /\ cursor = [k \in Keys |-> NoCursor]
    /\ iters = [i \in Slots |-> NoIter]
    /\ heap = [p \in Ptrs |-> NoAlloc]
    /\ handles = {}
    /\ heapFault = "none"
    /\ ret = NoRet
    /\ InitArgsIdle
    /\ convIn \in ConvInputs
    /\ convOut = NoConvOut

NextConv == ConvertStrings \/ ConvertUsize

SpecConv == InitConv /\ [][NextConv]_vars

\* String handles: creation under either context, elements yielded by an
\* iterator over the whole score range, and release in any order.
WholeLo == [kind |-> "Included", v |-> 1]
WholeHi == [kind |-> "Included", v |-> 3]

NextStr ==
    \/ \E ctx \in Ctxs : StringCreate(ctx, <<104, 105>>)
    \/ \E h \in HandleSpace : StringDrop(h)
    \/ \E last \in BOOLEAN : Unborrowed("zk") /\ ZSetNew("zk", WholeLo, WholeHi, last)
    \/ \E i \in Slots : ZSetNext(i)
    \/ \E i \in Slots : ZSetNextBack(i)
    \/ \E i \in Slots : ZSetDrop(i)

\* The scores play no part in the ownership of the strings: the sorted
\* sets here hold one to MaxMembers members of equal score.
InitStr == Init /\ \A p \in 1..Len(zset) : zset[p].s = 1

SpecStr == InitStr /\ [][NextStr]_vars

\* Creation of string handles from text with and without NUL bytes, and
\* their release.
Texts ==
    { <<>>, <<104, 105>>, <<195, 169>>, <<104, 0, 105>>, <<0>>, <<104, 105, 0>> }

NextCreate ==
    \/ \E ctx \in Ctxs, s \in Texts : StringCreate(ctx, s)
    \/ \E h \in HandleSpace : StringDrop(h)

SpecCreate == Init /\ [][NextCreate]_vars

\* Several iterators live on the same key at once, which the shared borrow
\* of the key that new takes allows: each element is released before the
\* next is asked for.
NextAlias ==
    \/ \E lo \in {WholeLo, [kind |-> "Excluded", v |-> 1]}, last \in BOOLEAN :
          ZSetNew("zk", lo, WholeHi, last)
    \/ \E i \in Slots : handles = {} /\ ZSetNext(i)
    \/ \E i \in Slots : handles = {} /\ ZSetNextBack(i)
    \/ \E i \in Slots : ZSetDrop(i)
    \/ \E h \in HandleSpace : StringDrop(h)

SpecAlias == Init /\ [][NextAlias]_vars

\* One iterator at a time on the sorted-set key, and constructions that fail
\* (on the other key, or with an unbounded side) attempted at any moment,
\* also while that iterator is live.
NextFail ==
    \/ \E lo \in {WholeLo, [kind |-> "Excluded", v |-> 1]}, last \in BOOLEAN :
          Unborrowed("zk") /\ ZSetNew("zk", lo, WholeHi, last)
    \/ \E k \in Keys, lo \in {WholeLo, NoBound}, hi \in {WholeHi, NoBound},
          last \in BOOLEAN :
          /\ k # "zk" \/ lo = NoBound \/ hi = NoBound
          /\ ZSetNew(k, lo, hi, last)
    \/ \E i \in Slots : handles = {} /\ ZSetNext(i)
    \/ \E i \in Slots : handles = {} /\ ZSetNextBack(i)
    \/ \E i \in Slots : ZSetDrop(i)
    \/ \E h \in HandleSpace : StringDrop(h)

SpecFail == Init /\ [][NextFail]_vars

---------------------------------------------------------------------------
(* What the claims are stated over *)

LowerOK(s, lo) == IF lo.kind = "Included" THEN s >= lo.v ELSE s > lo.v
UpperOK(s, hi) == IF hi.kind = "Included" THEN s <= hi.v ELSE s < hi.v
InInterval(s, lo, hi) == LowerOK(s, lo) /\ UpperOK(s, hi)

\* The members of z whose score lies in the interval, in ascending order.
ExpectedAsc(z, lo, hi) ==
    LET In(e) == InInterval(e.s, lo, hi)
        sel == SelectSeq(z, In)
    IN  [j \in 1..Len(sel) |-> sel[j].m]
Reverse(q) == [j \in 1..Len(q) |-> q[Len(q) + 1 - j]]
ExpectedDesc(z, lo, hi) == Reverse(ExpectedAsc(z, lo, hi))
IsPrefix(p, q) == Len(p) <= Len(q) /\ \A j \in 1..Len(p) : p[j] = q[j]
Elems(q) == {q[j] : j \in 1..Len(q)}

\* A live iterator whose cursor only its own steps have moved.
Followed(i) == iters[i].st = "active" /\ ~Unfollowed(iters[i])
ForwardOnly(i) ==
    Followed(i) /\ ~iters[i].last /\ iters[i].mode \in {"fresh", "fwd"}
BackwardOnly(i) ==
    Followed(i) /\ iters[i].last /\ iters[i].mode \in {"fresh", "back"}
EndSignalled(i) == ZsetRangeEndReached(iters[i].key, cursor[iters[i].key]) = 1

\* What iterator i has yielded is the beginning of e; it has yielded all of e
\* once it has signalled exhaustion; and its next step signals exhaustion
\* exactly when all of e has been yielded.
YieldsExactly(i, e) ==
    /\ IsPrefix(iters[i].out, e)
    /\ iters[i].done => iters[i].out = e
    /\ EndSignalled(i) <=> iters[i].out = e

\* C1: a forward iterator consumed only through next() yields exactly the
\* members whose score lies in its interval, each once, in ascending score
\* order starting with the lowest, and then signals exhaustion.
C1_ForwardAscending ==
    \A i \in Slots :
        ForwardOnly(i) =>
            YieldsExactly(i, ExpectedAsc(zset, iters[i].lo, iters[i].hi))

\* A forward iteration over three members of which two lie in the interval
\* has run to exhaustion.
C1_Witness ==
    \E i \in Slots :
        /\ ForwardOnly(i) /\ iters[i].done
        /\ Len(iters[i].out) = 2 /\ Len(zset) = 3

\* C2: a backward iterator consumed only through next_back() yields exactly
\* the members whose score lies in its interval, each once, in descending
\* score order starting with the highest, and then signals exhaustion.
C2_BackwardDescending ==
    \A i \in Slots :
        BackwardOnly(i) =>
            YieldsExactly(i, ExpectedDesc(zset, iters[i].lo, iters[i].hi))

\* A backward iteration over three members of which two lie in the interval
\* has run to exhaustion.
C2_Witness ==
    \E i \in Slots :
        /\ BackwardOnly(i) /\ iters[i].done
        /\ Len(iters[i].out) = 2 /\ Len(zset) = 3

\* C3: boundary exclusion is applied per side and not swapped. The host
\* cursor of a live iterator holds the lower bound's value and exclusion flag
\* as its minimum and the upper bound's as its maximum; and once the iteration
\* is exhausted, a member whose score equals a bound's value (and satisfies
\* the other bound) was yielded iff that bound is Included.
C3_ExclusionPerSide ==
    \A i \in Slots :
        (ForwardOnly(i) \/ BackwardOnly(i)) =>
            LET r == iters[i]
                c == cursor[r.key]
            IN  /\ c.min = r.lo.v /\ c.minex = (r.lo.kind = "Excluded")
                /\ c.max = r.hi.v /\ c.maxex = (r.hi.kind = "Excluded")
                /\ r.done =>
                     \A j \in 1..Len(zset) :
                        /\ (zset[j].s = r.lo.v /\ UpperOK(zset[j].s, r.hi)) =>
                              (zset[j].m \in Elems(r.out) <=> r.lo.kind = "Included")
                        /\ (zset[j].s = r.hi.v /\ LowerOK(zset[j].s, r.lo)) =>
                              (zset[j].m \in Elems(r.out) <=> r.hi.kind = "Included")

\* The interval (1, 3] over members scored 1, 2 and 3 has been iterated to
\* exhaustion and yielded the members scored 2 and 3.
C3_Witness ==
    \E i \in Slots :
        /\ ForwardOnly(i) /\ iters[i].done
        /\ iters[i].lo = [kind |-> "Excluded", v |-> 1]
        /\ iters[i].hi = [kind |-> "Included", v |-> 3]
        /\ zset = <<[m |-> "a", s |-> 1], [m |-> "b", s |-> 2], [m |-> "c", s |-> 3]>>
        /\ iters[i].out = <<"b", "c">>

\* C6: dropping an iterator after any number of steps releases its cursor,
\* and an iterator constructed next on the same key succeeds and yields the
\* full sequence of its own interval from its beginning.
C6_DropThenRestart ==
    /\ ret.op = "drop" => cursor[ret.key] = NoCursor
    /\ (ret.op = "new" /\ ret.steps >= 0 /\ ~ret.unb /\ KeyTypeOf(ret.key) = "ZSet") =>
          /\ ret.res = "Ok"
          /\ iters[ret.it].st = "active" /\ iters[ret.it].out = <<>>
    /\ \A i \in Slots :
          (Followed(i) /\ iters[i].after >= 0) =>
              /\ ForwardOnly(i) =>
                    YieldsExactly(i, ExpectedAsc(zset, iters[i].lo, iters[i].hi))
              /\ BackwardOnly(i) =>
                    YieldsExactly(i, ExpectedDesc(zset, iters[i].lo, iters[i].hi))

\* An iterator constructed after one that was dropped after a single step
\* has yielded all three members of its interval.
C6_Witness ==
    \E i \in Slots :
        /\ ForwardOnly(i) /\ iters[i].after = 1
        /\ iters[i].done /\ Len(iters[i].out) = 3

\* C7: an iterator's cursor is released exactly once over its lifetime, at
\* destruction: no operation other than drop invokes the host stop primitive,
\* and drop invokes it once.
C7_StopExactlyOnce ==
    /\ \A i \in Slots : iters[i].st = "active" => iters[i].stops = 0
    /\ ret.op \in {"new", "next", "next_back"} => CountOf(ret.calls, "Stop") = 0
    /\ ret.op = "drop" => ret.stops = 1 /\ cursor[ret.key] = NoCursor

\* A partially consumed iterator has been dropped.
C7_Witness ==
    /\ ret.op = "drop" /\ ret.res = "unfinished" /\ ret.steps = 1
    /\ ret.stops = 1

\* C4, as claimed: constructing an iterator with an unbounded lower or upper
\* bound fails with the unsupported-range error whatever the key's type, and
\* never reaches Active.
C4_UnboundedAlwaysUnsupported ==
    (ret.op = "new" /\ ret.unb) =>
        /\ ret.res = UnboundedMsg
        /\ \A i \in Slots : iters[i].st # "active"

\* C4, amended: constructing an iterator with an unbounded lower or upper
\* bound always fails, invokes no host primitive and never reaches Active; the
\* error is the unsupported-range error when the key is a sorted set, and
\* WrongType when it is not (the key's type is checked first).
C4_UnboundedFails ==
    (ret.op = "new" /\ ret.unb) =>
        /\ ret.res = IF KeyTypeOf(ret.key) = "ZSet" THEN UnboundedMsg ELSE "WrongType"
        /\ ret.it = 0 /\ ret.calls = <<>>
        /\ \A i \in Slots : iters[i].st # "active"
        /\ cursor[ret.key] = NoCursor

\* A construction over a sorted-set key with an unbounded bound has failed
\* with the unsupported-range error.
C4_Witness ==
    /\ ret.op = "new" /\ ret.unb /\ KeyTypeOf(ret.key) = "ZSet"
    /\ ret.res = UnboundedMsg

\* C5: on a key that is not a sorted set, construction with finite bounds
\* fails with WrongType without invoking a host range-open primitive, and
\* the key never has an open cursor, however often the attempt is repeated.
C5_WrongTypeNoCursor ==
    /\ (ret.op = "new" /\ KeyTypeOf(ret.key) # "ZSet" /\ ~ret.unb) =>
          /\ ret.res = "WrongType"
          /\ ret.it = 0 /\ ret.calls = <<>>
    /\ \A k \in Keys :
          KeyTypeOf(k) # "ZSet" => cursor[k] = NoCursor /\ Unborrowed(k)

\* A second failed attempt in a row on the key that is not a sorted set.
C5_Witness ==
    /\ ret.op = "new" /\ KeyTypeOf(ret.key) # "ZSet" /\ ~ret.unb
    /\ ret.res = "WrongType" /\ ret.again

\* C8: every live native string has exactly one owning handle, registered
\* under the context the handle carries; a handle's destruction frees its
\* string, once, under that context; no string is freed twice, freed under
\* another context, or left live without a handle.
C8_OneOwnerOneFree ==
    /\ heapFault = "none"
    /\ \A p \in Ptrs :
          heap[p].live => Cardinality({h \in handles : h.inner = p}) = 1
    /\ \A h \in handles : heap[h.inner].live /\ heap[h.inner].ctx = h.ctx
    /\ ret.op = "free" => Cardinality(FreePtrs(heap)) >= 1

\* A handle has been destroyed while a created string (under the second
\* context) is live and an iterator has yielded an element.
C8_Witness ==
    /\ ret.op = "free"
    /\ \E h \in handles : h.ctx = "ctx2"
    /\ \E i \in Slots : iters[i].st = "active" /\ Len(iters[i].out) >= 1

\* A token is a base-10 signed 64-bit integer literal: an optional sign, then
\* one or more digits, denoting a number from -2^63 to 2^63 - 1.
LiteralDigits(t) == IF t # <<>> /\ Head(t) \in {"+", "-"} THEN Tail(t) ELSE t
IsI64Literal(t) ==
    /\ LiteralDigits(t) # <<>>
    /\ \A j \in 1..Len(LiteralDigits(t)) : IsDigit(LiteralDigits(t)[j])
    /\ MagLeq(StripZeros(LiteralDigits(t)),
              IF Head(t) = "-" THEN I64MinMag ELSE I64MaxMag)
LiteralValue(t) ==
    [neg |-> Head(t) = "-" /\ StripZeros(LiteralDigits(t)) # <<>>,
     mag |-> StripZeros(LiteralDigits(t))]

\* C9: on an empty remaining sequence both next_string and next_i64 fail
\* with WrongArity, whatever was extracted before, and leave it empty.
C9_EmptyIsWrongArity ==
    (argRes.op \in {"next_string", "next_i64"} /\ argRes.empty) =>
        argRes.res.kind = "WrongArity" /\ args = <<>>

\* next_i64 has failed on a sequence that earlier extractions emptied.
C9_Witness ==
    /\ argRes.op = "next_i64" /\ argRes.empty /\ argOps >= 1
    /\ argRes.res.kind = "WrongArity"

\* C10: on a non-empty sequence next_i64 succeeds, with the number the token
\* denotes, iff the token is a base-10 signed 64-bit integer literal;
\* otherwise it fails with an owned message: the fixed prefix followed by the
\* token verbatim.
C10_NextI64ParsesLiteral ==
    (argRes.op = "next_i64" /\ ~argRes.empty) =>
        IF IsI64Literal(argRes.tok)
        THEN argRes.res.kind = "Ok" /\ argRes.res.value = LiteralValue(argRes.tok)
        ELSE argRes.res.kind = "String" /\ argRes.res.msg = ParsePrefix \o argRes.tok

\* next_i64 has rejected the token " 7" with a message that ends in it.
C10_Witness ==
    /\ argRes.op = "next_i64" /\ argRes.tok = <<" ", "7">>
    /\ argRes.res.kind = "String"
    /\ argRes.res.msg = ParsePrefix \o <<" ", "7">>

\* C11: converting a vector of strings yields the Array variant of the same
\* length whose i-th element is the BulkString variant holding the i-th
\* string; no element is a status-text variant.
C11_VecStringIsBulkArray ==
    (convIn.kind = "strings" /\ convOut # NoConvOut) =>
        /\ convOut.variant = "Array"
        /\ Len(convOut.elems) = Len(convIn.strings)
        /\ \A j \in 1..Len(convIn.strings) :
              /\ convOut.elems[j].variant = "BulkString"
              /\ convOut.elems[j].text = convIn.strings[j]

\* The vector <<"b c", "", "OK">>, which holds the empty string, has been
\* converted.
C11_Witness ==
    /\ convIn.kind = "strings" /\ convIn.strings = <<"b c", "", "OK">>
    /\ convOut.variant = "Array" /\ Len(convOut.elems) = 3

\* C17, as claimed: converting an unsigned size n yields the Integer variant
\* whose signed 64-bit value equals n and is never negative.
C17_UsizeValuePreserved ==
    (convIn.kind = "usize" /\ convOut # NoConvOut) =>
        /\ convOut.variant = "Integer"
        /\ SignedValue(convOut.int) = UnsignedValue(convIn.word)
        /\ ~SignedValue(convOut.int).neg

\* C18: a create of text that holds a NUL byte panics before the host's
\* string-creation primitive is invoked: no allocation is made and no handle
\* produced; a create of text without a NUL byte succeeds with one call of the
\* primitive and adds exactly one handle, under the given context, whose
\* allocation is new and holds the whole text, no other allocation changing.
C18_CreateStep ==
    ret'.op = "create" =>
        IF HasNul(ret'.text)
        THEN /\ ret'.res = "panic" /\ ret'.calls = <<>>
             /\ heap' = heap /\ handles' = handles
        ELSE /\ ret'.res # "panic" /\ ret'.calls = <<"CreateString">>
             /\ handles \subseteq handles'
             /\ Cardinality(handles' \ handles) = 1
             /\ \A h \in handles' \ handles :
                   /\ ~heap[h.inner].live
                   /\ heap'[h.inner] = [live |-> TRUE, ctx |-> h.ctx,
                                        text |-> ret'.text]
                   /\ Len(heap'[h.inner].text) = Len(ret'.text)
                   /\ \A p \in Ptrs \ {h.inner} : heap'[p] = heap[p]
C18_CreateNulPanics == [][C18_CreateStep]_vars

\* A create of the text "h\0i" has panicked while a string created before
\* from the two-byte text of one character is live.
C18_Witness ==
    /\ ret.op = "create" /\ ret.res = "panic" /\ ret.text = <<104, 0, 105>>
    /\ \E h \in handles : heap[h.inner].text = <<195, 169>>

\* C12, as claimed: a step of an iterator opened at the first element of its
\* range never issues the advance-backward primitive, and a step of one opened
\* at the last element never issues the advance-forward primitive, whichever
\* accessor is called.
C12_StepKeepsOpeningDirection ==
    \A i \in Slots :
        (ret'.op \in {"next", "next_back"} /\ ret'.it = i
            /\ iters[i].st = "active" /\ ~Unfollowed(iters[i])) =>
            IF iters[i].last THEN CountOf(ret'.calls, "Next") = 0
                             ELSE CountOf(ret'.calls, "Prev") = 0
C12_DirectionFixedAtOpen == [][C12_StepKeepsOpeningDirection]_vars

\* C12, amended: the advance primitive a step issues is the one of the
\* accessor called: next() never issues the advance-backward primitive and
\* next_back() never the advance-forward one.  So an iterator opened at the
\* first element and consumed only through next() never issues prev, and one
\* opened at the last element and consumed only through next_back() never
\* issues next.
C12_AdvanceByAccessor ==
    /\ ret.op = "next" => CountOf(ret.calls, "Prev") = 0
    /\ ret.op = "next_back" => CountOf(ret.calls, "Next") = 0
    /\ \A i \in Slots :
          (ret.op \in {"next", "next_back"} /\ ret.it = i) =>
              /\ ForwardOnly(i) => CountOf(ret.calls, "Prev") = 0
              /\ BackwardOnly(i) => CountOf(ret.calls, "Next") = 0

\* An iterator opened at the first element and consumed only through next()
\* has just taken its second element, advancing with the forward primitive.
C12_Witness ==
    \E i \in Slots :
        /\ ret.op = "next" /\ ret.it = i /\ ForwardOnly(i)
        /\ Len(iters[i].out) = 2 /\ CountOf(ret.calls, "Next") = 1

\* C13: while an iterator is active on a key no second iterator is active on
\* that key, and no iterator's cursor has been stopped or repositioned by the
\* construction, step or drop of another iterator.
C13_CursorOfOneIterator ==
    /\ \A i, j \in Slots :
          (i # j /\ iters[i].st = "active" /\ iters[j].st = "active") =>
              iters[i].key # iters[j].key
    /\ \A i \in Slots : ~iters[i].disturbed

\* C14: a step invokes the host cursor primitives on a key only while the
\* key has a cursor that a successful initialisation opened and that has
\* not been stopped since.
C14_StepHasOpenCursor ==
    ret'.op \in {"next", "next_back"} => cursor[ret'.key].ztype = "score"
C14_PrimitivesOnOpenCursor == [][C14_StepHasOpenCursor]_vars

\* C15: a construction that fails, for whichever reason, produces no iterator
\* value and does not invoke the host stop primitive; it invokes no host
\* primitive at all unless the failure is the one the host open primitive
\* reported; the cursor of every key, the live iterators, and the strings are
\* as before the attempt, apart from what that open primitive did to the
\* cursor of the key.
C15_FailedNewStep ==
    (ret'.op = "new" /\ ret'.res # "Ok") =>
        /\ ret'.it = 0 /\ iters' = iters
        /\ CountOf(ret'.calls, "Stop") = 0
        /\ ret'.res \in {"WrongType", UnboundedMsg, CreateFailedMsg}
        /\ ret'.res \in {"WrongType", UnboundedMsg} => ret'.calls = <<>>
        /\ ret'.res = CreateFailedMsg =>
              \/ ret'.calls = <<"FirstInScoreRange">>
              \/ ret'.calls = <<"LastInScoreRange">>
        /\ ret'.calls = <<>> => cursor' = cursor
        /\ \A k \in Keys \ {ret'.key} : cursor'[k] = cursor[k]
        /\ heap' = heap /\ handles' = handles /\ heapFault' = heapFault
C15_FailedNewLeavesNoTrace == [][C15_FailedNewStep]_vars

\* A construction with an unbounded side has failed on the sorted-set key
\* while an iterator that has yielded one element is live on it, its cursor
\* open on the second member.
C15_Witness ==
    /\ ret.op = "new" /\ ret.res = UnboundedMsg /\ ret.key = "zk"
    /\ cursor["zk"].ztype = "score" /\ cursor["zk"].current = 2
    /\ \E i \in Slots : ForwardOnly(i) /\ iters[i].out = <<"a">>

\* C16: a step first asks the host whether the end is reached.  If it is,
\* the step yields nothing and invokes no other primitive: the cursor is not
\* advanced and no string is allocated; and a step that follows a step of the
\* same iterator that signalled exhaustion signals exhaustion too.  If it is
\* not, the step yields the member at the cursor before the advance, wrapped
\* in one new string handle, and then advances.
C16_Step ==
    ret'.op \in {"next", "next_back"} =>
        LET k == ret'.key
            c == cursor[k]
        IN  /\ ret'.calls # <<>> /\ ret'.calls[1] = "EndReached"
            /\ IF ZsetRangeEndReached(k, c) = 1
               THEN /\ ret'.res = "None" /\ ret'.calls = <<"EndReached">>
                    /\ cursor' = cursor
                    /\ heap' = heap /\ handles' = handles
               ELSE /\ c.current \in 1..Len(zset)
                    /\ ret'.res = zset[c.current].m
                    /\ ret'.calls \in {<<"EndReached", "CurrentElement", "Next">>,
                                       <<"EndReached", "CurrentElement", "Prev">>}
                    /\ Cardinality(handles' \ handles) = 1
                    /\ \A h \in handles' \ handles :
                          heap'[h.inner].text = MemberBytes(ret'.res)
            /\ (ret.op \in {"next", "next_back"} /\ ret.it = ret'.it
                   /\ ret.res = "None") => ret'.res = "None"
C16_EndCheckedFirst == [][C16_Step]_vars

\* A backward iterator that has yielded the three members of its interval
\* has signalled exhaustion, calling the end-reached primitive alone.
C16_Witness ==
    \E i \in Slots :
        /\ ret.op = "next_back" /\ ret.it = i /\ ret.res = "None"
        /\ ret.calls = <<"EndReached">>
        /\ BackwardOnly(i) /\ iters[i].done /\ Len(iters[i].out) = 3

============================================================================
